---- MODULE Spec2Model ----
(***************************************************************************)
(* Model of the steam-ml ingestion layer:                                  *)
(*   - BaseIngestor._get (bounded retry), save_raw, save_parquet           *)
(*   - SteamStoreIngestor._fetch_single_app / ingest_from_app_list         *)
(*     (the incremental Detail Fetcher: resume filter, limit, merge)       *)
(*   - SteamWebIngestor.ingest_app_list (the Catalog Paginator)            *)
(* Files are modelled as records; a table file is a column flag (does it   *)
(* have the appid column) plus its rows in file order.                     *)
(***************************************************************************)
EXTENDS Integers, Sequences, FiniteSets, TLC

\* ---------------------------------------------------------------- bounds
MaxId == 2          \* app ids are 1..MaxId
MaxCat == 2         \* rows of the Catalog Table
MaxRuns == 2        \* consecutive runs of ingest_from_app_list
MaxLimit == 2       \* --limit is any int: tried are -1 .. MaxLimit, and None
MaxPages == 2       \* full pages the catalog server serves before a short one
MaxPageSize == 2    \* page_size is 1..MaxPageSize

\* ------------------------------------------------------ program constants
MaxAttempts == 5    \* stop_after_attempt(5)
NA == 0             \* a missing cell (NaN / None) of an appid column

Ids == 1..MaxId
Cells == Ids \cup {NA}

NoLimit == [isNone |-> TRUE, n |-> 0]
Limits == {NoLimit} \cup {[isNone |-> FALSE, n |-> k] : k \in (0 - 1)..MaxLimit}

Min(a, b) == IF a <= b THEN a ELSE b
Max(a, b) == IF a >= b THEN a ELSE b

\* All sequences over S of length at most n.
SeqsUpTo(S, n) == UNION {[1..k -> S] : k \in 0..n}

\* -------------------------------------------------------------- pandas
\* Series.dropna(): the cells that are present, in order.
DropNa(col) == SelectSeq(col, LAMBDA c : c # NA)

InsertSorted(x, s) ==
    SelectSeq(s, LAMBDA y : y <= x) \o <<x>> \o SelectSeq(s, LAMBDA y : y > x)

RECURSIVE SortValues(_)
\* Series.sort_values(): ascending, duplicates kept.
SortValues(col) ==
    IF col = <<>> THEN <<>> ELSE InsertSorted(Head(col), SortValues(Tail(col)))

\* The appid column of a table's rows.
AppidColumn(rows) == [i \in DOMAIN rows |-> rows[i].appid]

\* list[:n] of Python, n any integer.
SliceTo(s, n) ==
    IF n >= 0 THEN SubSeq(s, 1, Min(n, Len(s)))
    ELSE SubSeq(s, 1, Max(0, Len(s) + n))

\* DataFrame.empty: no rows or no columns.
DfEmpty(df) == df.rows = <<>> \/ ~df.hasCols

\* pd.DataFrame(): no columns, no rows.
EmptyFrame == [hasCols |-> FALSE, hasId |-> FALSE, rows |-> <<>>]

\* pd.json_normalize(results): every record carries appid (see FetchSingleApp).
JsonNormalize(results) == [hasCols |-> TRUE, hasId |-> TRUE, rows |-> results]

\* pd.concat([a, b], ignore_index=True): rows of a then rows of b, union of columns.
Concat(a, b) ==
    [hasCols |-> a.hasCols \/ b.hasCols,
     hasId   |-> a.hasId \/ b.hasId,
     rows    |-> a.rows \o b.rows]

KeepFirstRows(rows) ==
    LET keep == {i \in DOMAIN rows : \A j \in DOMAIN rows : j < i => rows[j].appid # rows[i].appid}
        F[i \in 0..Len(rows)] ==
            IF i = 0 THEN <<>>
            ELSE IF i \in keep THEN Append(F[i - 1], rows[i]) ELSE F[i - 1]
    IN F[Len(rows)]

\* drop_duplicates(subset=["appid"], keep="last") on the rows, order kept.
KeepLastRows(rows) ==
    LET keep == {i \in DOMAIN rows : \A j \in DOMAIN rows : j > i => rows[j].appid # rows[i].appid}
        F[i \in 0..Len(rows)] ==
            IF i = 0 THEN <<>>
            ELSE IF i \in keep THEN Append(F[i - 1], rows[i]) ELSE F[i - 1]
    IN F[Len(rows)]

DropDuplicatesFirst(df) == [df EXCEPT !.rows = KeepFirstRows(df.rows)]

DropDuplicatesLast(df) == [df EXCEPT !.rows = KeepLastRows(df.rows)]


\* ------------------------------------------------------------ the files
\* A table file that does not exist.
NoTable == [exists |-> FALSE, hasCols |-> FALSE, hasId |-> FALSE, rows |-> <<>>]

\* A raw JSON file that does not exist.
NoRaw == [exists |-> FALSE, apps |-> <<>>, count |-> 0]

\* A row persisted before the first run.
OldRow(a) == [appid |-> a, val |-> <<0, 0>>]

StrictlyAscending(s) == \A i, j \in DOMAIN s : i < j => s[i] < s[j]

\* Detail Tables a first run may find: none, one with unique ids, one
\* without the appid column.
InitialTables ==
    {NoTable}
    \cup {[exists |-> TRUE, hasCols |-> TRUE, hasId |-> TRUE,
           rows |-> [i \in DOMAIN s |-> OldRow(s[i])]] :
             s \in {t \in SeqsUpTo(Ids, MaxId) : StrictlyAscending(t)}}
    \cup {[exists |-> TRUE, hasCols |-> TRUE, hasId |-> FALSE, rows |-> <<OldRow(NA)>>]}

\* Catalog Tables: missing file, file without the appid column, file with an
\* appid column holding any cells in any order.
InitialCatalogs ==
    {[exists |-> FALSE, hasId |-> FALSE, ids |-> <<>>],
     [exists |-> TRUE, hasId |-> FALSE, ids |-> <<>>]}
    \cup {[exists |-> TRUE, hasId |-> TRUE, ids |-> c] : c \in SeqsUpTo(Cells, MaxCat)}

\* pd.read_parquet of a table file.
ReadParquet(file) == [hasCols |-> file.hasCols, hasId |-> file.hasId, rows |-> file.rows]

\* write_parquet: a full overwrite of the file by the frame.
WriteParquet(df) ==
    [exists |-> TRUE, hasCols |-> df.hasCols, hasId |-> df.hasId, rows |-> df.rows]

\* write_json: a full overwrite of the file by the payload.
WriteJson(payload) == [exists |-> TRUE, apps |-> payload.apps, count |-> payload.count]

\* ------------------------------------------------- BaseIngestor._get
FailureKinds == {"TransportError", "HTTPStatusError"}

StopAfterSixAttempts(n) == n >= MaxAttempts + 1

\* stop_after_attempt(5): no retry once n attempts have been made.
StopAfterAttempt(n) == n >= MaxAttempts

NoBody == [kind |-> "none", echo |-> NA]

NoResult == [body |-> NoBody, exc |-> "none"]

\* ------------------------------------------- SteamStoreIngestor helpers
\* An id other than a, standing for a detail object that names another app.
OtherId(a) == (a % MaxId) + 1

\* The bodies /appdetails can answer with for the requested appid: no entry
\* for the id, an entry with success false, or success with a detail object
\* whose appid field is absent (NA), equal to the requested id, or different.
Responses(appid) ==
    {[kind |-> "noentry", echo |-> NA], [kind |-> "nosuccess", echo |-> NA]}
    \cup {[kind |-> "success", echo |-> e] : e \in {NA, appid, OtherId(appid)}}

FetchSingleAppNoSkip(appid, resp, tag) ==
    <<[appid |-> IF resp.echo = NA THEN appid ELSE resp.echo, val |-> tag]>>

\* _fetch_single_app after _get returned resp: <<>> for None, else the one
\* record; setdefault leaves an appid the detail object already has.
FetchSingleApp(appid, resp, tag) ==
    IF resp.kind # "success" THEN <<>>
    ELSE <<[appid |-> IF resp.echo = NA THEN appid ELSE resp.echo, val |-> tag]>>

CatalogMissing(cat) == ~cat.exists

CatalogLacksId(cat) == ~cat.hasId

\* appids_all: dropna, astype(int64), sort_values, tolist.
AppidsAll(cat) == SortValues(DropNa(cat.ids))

ExistingNeverLacksId(file) == FALSE

ExistingLacksId(file) == file.exists /\ ~file.hasId

\* ingested_appids: the ids of the existing Detail Table, {} without one.
IngestedAppids(file) ==
    IF file.exists
    THEN LET col == DropNa(AppidColumn(ReadParquet(file).rows))
         IN {col[i] : i \in DOMAIN col}
    ELSE {}

RemainingAppids(all, ingested) == SelectSeq(all, LAMBDA a : a \notin ingested)

NeverShortCircuit(remaining) == FALSE

NothingRemaining(remaining) == remaining = <<>>

TargetAppids(remaining, lim) ==
    IF ~lim.isNone THEN SliceTo(remaining, lim.n) ELSE remaining

RawPayload(res) == [apps |-> res, count |-> Len(res)]

DetailsFrame(res) == IF res # <<>> THEN JsonNormalize(res) ELSE EmptyFrame

MergeKeepFirst(file, details) ==
    IF file.exists
    THEN LET existing == ReadParquet(file) IN
         IF ~DfEmpty(existing)
         THEN LET combined == Concat(existing, details) IN
              IF combined.hasId THEN DropDuplicatesFirst(combined) ELSE combined
         ELSE details
    ELSE details

MergeNewOnly(file, details) == details

\* The merge step: old rows then new rows, deduplicated by appid keeping the
\* last, when a non-empty Detail Table exists; else the new frame as it is.
Merge(file, details) ==
    IF file.exists
    THEN LET existing == ReadParquet(file) IN
         IF ~DfEmpty(existing)
         THEN LET combined == Concat(existing, details) IN
              IF combined.hasId THEN DropDuplicatesLast(combined) ELSE combined
         ELSE details
    ELSE details

\* ---------------------------------------------------------------- state
VARIABLES
    catalog,      \* data/bronze/steam_web/app_list.parquet
    table,        \* data/bronze/steam_store/app_details.parquet
    raw,          \* data/raw/steam_store/app_details.json
    pc,           \* "idle", "fetch", "persist", "done", "failed"
    err,          \* the exception a failed run ended with
    limit,        \* the run's limit argument
    target,       \* target_appids
    idx,          \* position of the loop in target
    results,      \* results
    requested,    \* history: ids _get was called for in this run
    outcomes,     \* history: the kind of body each _get of this run returned
    okReq,        \* history: the id requested for each record of results
    writes,       \* history: files written in this run
    tablePre,     \* history: table as the run found it
    rawPre,       \* history: raw as the run found it
    runs,         \* runs started
    getPc,        \* _get: "idle", "trying", "returned", "raised"
    getReq,       \* _get: the appid parameter of the call
    attempt,      \* _get: attempts made so far (tenacity's attempt_number)
    getLog,       \* _get history: outcome and body of every attempt of the call
    getResult,    \* _get: the body returned or the exception raised
    keyCfg,       \* where a Steam Web API key is configured
    page_size,    \* ingest_app_list: page_size
    all_apps,     \* ingest_app_list: all_apps
    last_appid,   \* ingest_app_list: last_appid
    webPc,        \* ingest_app_list: "idle", "paging", "done", "failed"
    webErr,       \* the exception ingest_app_list ended with
    webRaw,       \* data/raw/steam_web/app_list.json
    cursors,      \* history: last_appid parameter of every request
    pages,        \* history: the page every request returned
    everRequested \* history of repeated runs: ids requested in any run so far

storeVars == <<catalog, table, raw, pc, err, limit, target, idx, results,
               requested, outcomes, okReq, writes, tablePre, rawPre, runs>>

getVars == <<getPc, getReq, attempt, getLog, getResult>>

webVars == <<keyCfg, page_size, all_apps, last_appid, webPc, webErr, webRaw, cursors, pages>>

resumeVars == <<everRequested>>

vars == <<storeVars, getVars, webVars, resumeVars>>

NoWrites == [raw |-> 0, table |-> 0]

\* No run of ingest_from_app_list so far.
StoreIdle ==
    /\ raw = NoRaw
    /\ pc = "idle"
    /\ err = "none"
    /\ limit = NoLimit
    /\ target = <<>>
    /\ idx = 1
    /\ results = <<>>
    /\ requested = <<>>
    /\ outcomes = <<>>
    /\ okReq = <<>>
    /\ writes = NoWrites
    /\ tablePre = table
    /\ rawPre = raw
    /\ runs = 0
    /\ everRequested = {}

\* No call of _get so far.
GetIdle ==
    /\ getPc = "idle"
    /\ getReq = NA
    /\ attempt = 0
    /\ getLog = <<>>
    /\ getResult = NoResult

NoKeys == [env |-> FALSE, local |-> FALSE, repo |-> FALSE]

\* No run of ingest_app_list so far.
WebIdle ==
    /\ page_size = 1
    /\ all_apps = <<>>
    /\ last_appid = 0
    /\ webPc = "idle"
    /\ webErr = "none"
    /\ webRaw = NoRaw
    /\ cursors = <<>>
    /\ pages = <<>>

Init ==
    /\ catalog \in InitialCatalogs
    /\ table \in InitialTables
    /\ StoreIdle
    /\ GetIdle
    /\ keyCfg = NoKeys
    /\ WebIdle

\* A call of ingest_from_app_list begins: fresh locals, fresh history.
Enter(lim) ==
    /\ pc \in {"idle", "done", "failed"}
    /\ runs < MaxRuns
    /\ runs' = runs + 1
    /\ limit' = lim
    /\ idx' = 1
    /\ results' = <<>>
    /\ requested' = <<>>
    /\ outcomes' = <<>>
    /\ okReq' = <<>>
    /\ writes' = NoWrites
    /\ tablePre' = table
    /\ rawPre' = raw
    /\ UNCHANGED <<catalog, table, raw, getVars, webVars, resumeVars>>

Fatal(e) == pc' = "failed" /\ err' = e /\ target' = <<>>

\* lines 90-94: the Catalog Table file is missing.
RunCatalogMissing ==
    \E lim \in Limits :
        /\ Enter(lim)
        /\ CatalogMissing(catalog)
        /\ Fatal("FileNotFoundError")

\* lines 97-100: the Catalog Table has no appid column.
RunCatalogLacksId ==
    \E lim \in Limits :
        /\ Enter(lim)
        /\ ~CatalogMissing(catalog)
        /\ CatalogLacksId(catalog)
        /\ Fatal("ValueError")

\* lines 108-112: the existing Detail Table has no appid column.
RunExistingLacksId ==
    \E lim \in Limits :
        /\ Enter(lim)
        /\ ~CatalogMissing(catalog)
        /\ ~CatalogLacksId(catalog)
        /\ ExistingLacksId(table)
        /\ Fatal("ValueError")

Prerequisites ==
    /\ ~CatalogMissing(catalog)
    /\ ~CatalogLacksId(catalog)
    /\ ~ExistingLacksId(table)

\* lines 116-123: every catalog id is already in the Detail Table.
RunNothingRemaining ==
    \E lim \in Limits :
        /\ Enter(lim)
        /\ Prerequisites
        /\ NothingRemaining(RemainingAppids(AppidsAll(catalog), IngestedAppids(table)))
        /\ pc' = "done"
        /\ err' = "none"
        /\ target' = <<>>

\* lines 116-136: the ids to fetch are selected and the loop is entered.
RunSelect ==
    \E lim \in Limits :
        LET remaining == RemainingAppids(AppidsAll(catalog), IngestedAppids(table)) IN
        /\ Enter(lim)
        /\ Prerequisites
        /\ ~NothingRemaining(remaining)
        /\ target' = TargetAppids(remaining, lim)
        /\ pc' = IF target' = <<>> THEN "persist" ELSE "fetch"
        /\ err' = "none"

GetRaisesAfterSavingRaw ==
    \E kind \in FailureKinds :
        /\ pc = "fetch"
        /\ requested' = Append(requested, target[idx])
        /\ pc' = "failed"
        /\ err' = kind
        /\ raw' = WriteJson(RawPayload(results))
        /\ UNCHANGED <<catalog, table, limit, target, idx, results, outcomes,
                       okReq, writes, tablePre, rawPre, runs, getVars, webVars, resumeVars>>

\* _get for target[idx] fails on every attempt: tenacity re-raises the last
\* failure and the exception leaves ingest_from_app_list (lines 139, 49).
GetRaises ==
    \E kind \in FailureKinds :
        /\ pc = "fetch"
        /\ requested' = Append(requested, target[idx])
        /\ pc' = "failed"
        /\ err' = kind
        /\ UNCHANGED <<catalog, table, raw, limit, target, idx, results, outcomes,
                       okReq, writes, tablePre, rawPre, runs, getVars, webVars, resumeVars>>

\* _get returns a body: _fetch_single_app skips the id or yields its
\* record, and the loop moves on (lines 137-144).
GetReturns ==
    /\ pc = "fetch"
    /\ \E resp \in Responses(target[idx]) :
        LET rec == FetchSingleApp(target[idx], resp, <<runs, idx>>) IN
        /\ requested' = Append(requested, target[idx])
        /\ results' = results \o rec
        /\ outcomes' = Append(outcomes, resp.kind)
        /\ okReq' = IF rec = <<>> THEN okReq ELSE Append(okReq, target[idx])
        /\ idx' = idx + 1
        /\ pc' = IF idx + 1 > Len(target) THEN "persist" ELSE "fetch"
        /\ UNCHANGED <<catalog, table, raw, err, limit, target, writes, tablePre,
                       rawPre, runs, getVars, webVars, resumeVars>>

PersistAppendingRaw ==
    /\ pc = "persist"
    /\ raw' = WriteJson(RawPayload(raw.apps \o results))
    /\ table' = WriteParquet(Merge(table, DetailsFrame(results)))
    /\ writes' = [raw |-> writes.raw + 1, table |-> writes.table + 1]
    /\ pc' = "done"
    /\ UNCHANGED <<catalog, err, limit, target, idx, results, requested, outcomes,
                   okReq, tablePre, rawPre, runs, getVars, webVars, resumeVars>>

\* lines 146-185: save_raw of this run's results, then the merge and
\* save_parquet of the merged table.
Persist ==
    /\ pc = "persist"
    /\ raw' = WriteJson(RawPayload(results))
    /\ table' = WriteParquet(Merge(table, DetailsFrame(results)))
    /\ writes' = [raw |-> writes.raw + 1, table |-> writes.table + 1]
    /\ pc' = "done"
    /\ UNCHANGED <<catalog, err, limit, target, idx, results, requested, outcomes,
                   okReq, tablePre, rawPre, runs, getVars, webVars, resumeVars>>

Next ==
    \/ RunCatalogMissing
    \/ RunCatalogLacksId
    \/ RunExistingLacksId
    \/ RunNothingRemaining
    \/ RunSelect
    \/ GetRaises
    \/ GetReturns
    \/ Persist

Spec == Init /\ [][Next]_vars


\* ------------------------------------------------ BaseIngestor._get alone
\* The retry loop of _get, one HTTP attempt per step, for a call with the
\* /appdetails parameters of one appid.
InitGet ==
    /\ catalog = [exists |-> FALSE, hasId |-> FALSE, ids |-> <<>>]
    /\ table = NoTable
    /\ StoreIdle
    /\ GetIdle
    /\ keyCfg = NoKeys
    /\ WebIdle

\* A caller calls _get.
GetCall ==
    \E a \in Ids :
        /\ getPc \in {"idle", "returned", "raised"}
        /\ getPc' = "trying"
        /\ getReq' = a
        /\ attempt' = 0
        /\ getLog' = <<>>
        /\ getResult' = NoResult
        /\ UNCHANGED <<storeVars, webVars, resumeVars>>

\* client.get raises or raise_for_status raises on a non-success status:
\* tenacity retries, or re-raises the failure once the stop condition holds.
GetAttemptFails ==
    \E kind \in FailureKinds :
        /\ getPc = "trying"
        /\ attempt' = attempt + 1
        /\ getLog' = Append(getLog, [out |-> kind, body |-> NoBody])
        /\ IF StopAfterAttempt(attempt + 1)
           THEN getPc' = "raised" /\ getResult' = [body |-> NoBody, exc |-> kind]
           ELSE UNCHANGED <<getPc, getResult>>
        /\ UNCHANGED <<getReq, storeVars, webVars, resumeVars>>

\* The attempt succeeds: response.json() is returned.
GetAttemptSucceeds ==
    /\ getPc = "trying"
    /\ \E resp \in Responses(getReq) :
        /\ attempt' = attempt + 1
        /\ getLog' = Append(getLog, [out |-> "ok", body |-> resp])
        /\ getPc' = "returned"
        /\ getResult' = [body |-> resp, exc |-> "none"]
        /\ UNCHANGED <<getReq, storeVars, webVars, resumeVars>>

NextGet ==
    \/ GetCall
    \/ GetAttemptFails
    \/ GetAttemptSucceeds

SpecGet == InitGet /\ [][NextGet]_vars

\* --------------------------------- SteamWebIngestor.ingest_app_list
KeyConfigs == [env : BOOLEAN, local : BOOLEAN, repo : BOOLEAN]

\* _get_api_key: environment variable, then the local override file, then
\* the repo config; "none" stands for the RuntimeError.
GetApiKey(cfg) ==
    IF cfg.env THEN "env"
    ELSE IF cfg.local THEN "local"
    ELSE IF cfg.repo THEN "repo"
    ELSE "none"

\* The pages the server may answer a request with: up to max entries with
\* ascending ids above the cursor; it serves at most MaxPages full pages.
ServerPages(cursor, max, fullSoFar) ==
    {[i \in 1..n |-> [appid |-> cursor + g * i]] :
        n \in 0..(IF fullSoFar < MaxPages THEN max ELSE max - 1), g \in 1..2}

FullPages(ps) == Cardinality({i \in DOMAIN pages : Len(pages[i]) = ps})

\* last_appid = page_apps[-1]["appid"]
NextCursor(page) == page[Len(page)].appid

ShortOrFullPage(page, ps) == Len(page) <= ps

\* len(page_apps) < page_size
ShortPage(page, ps) == Len(page) < ps

\* pd.DataFrame(all_apps) written by save_parquet: no columns without rows.
AppListFrame(apps) ==
    [exists |-> TRUE, hasId |-> apps # <<>>, ids |-> [i \in DOMAIN apps |-> apps[i].appid]]

InitWeb ==
    /\ catalog = [exists |-> FALSE, hasId |-> FALSE, ids |-> <<>>]
    /\ table = NoTable
    /\ StoreIdle
    /\ GetIdle
    /\ keyCfg \in KeyConfigs
    /\ WebIdle

\* ingest_app_list is called and no API key is configured (line 92).
WebNoKey ==
    \E ps \in 1..MaxPageSize :
        /\ webPc = "idle"
        /\ GetApiKey(keyCfg) = "none"
        /\ page_size' = ps
        /\ webPc' = "failed"
        /\ webErr' = "RuntimeError"
        /\ UNCHANGED <<storeVars, getVars, resumeVars, keyCfg, all_apps, last_appid, webRaw,
                       cursors, pages>>

\* ingest_app_list is called with a key: lines 92-95.
WebStart ==
    \E ps \in 1..MaxPageSize :
        /\ webPc = "idle"
        /\ GetApiKey(keyCfg) # "none"
        /\ page_size' = ps
        /\ all_apps' = <<>>
        /\ last_appid' = 0
        /\ webPc' = "paging"
        /\ UNCHANGED <<storeVars, getVars, resumeVars, keyCfg, webErr, webRaw, cursors, pages>>

\* One pass of the loop whose _get raises after its retries (line 98).
WebGetRaises ==
    \E kind \in FailureKinds :
        /\ webPc = "paging"
        /\ cursors' = Append(cursors, last_appid)
        /\ webPc' = "failed"
        /\ webErr' = kind
        /\ UNCHANGED <<storeVars, getVars, resumeVars, keyCfg, page_size, all_apps, last_appid,
                       webRaw, pages>>

\* One pass of the loop whose _get returns a page (lines 97-118); when the
\* loop breaks, the raw list and the table are written (lines 120-124).
WebPage ==
    /\ webPc = "paging"
    /\ \E page \in ServerPages(last_appid, page_size, FullPages(page_size)) :
        LET stop == page = <<>> \/ ShortPage(page, page_size)
            apps == IF page = <<>> THEN all_apps ELSE all_apps \o page
        IN
        /\ cursors' = Append(cursors, last_appid)
        /\ pages' = Append(pages, page)
        /\ all_apps' = apps
        /\ last_appid' = IF page = <<>> THEN last_appid ELSE NextCursor(page)
        /\ IF stop
           THEN /\ webPc' = "done"
                /\ webRaw' = [exists |-> TRUE, apps |-> apps, count |-> Len(apps)]
                /\ catalog' = AppListFrame(apps)
           ELSE UNCHANGED <<webPc, webRaw, catalog>>
        /\ UNCHANGED <<table, raw, pc, err, limit, target, idx, results, requested,
                       outcomes, okReq, writes, tablePre, rawPre, runs, getVars,
                       resumeVars, keyCfg, page_size, webErr>>

NextWeb ==
    \/ WebNoKey
    \/ WebStart
    \/ WebGetRaises
    \/ WebPage

SpecWeb == InitWeb /\ [][NextWeb]_vars


\* ------------------------------------- ingest_from_app_list, run again
\* The Detail Fetcher run over and over with one Catalog Table and one
\* limit of at least 1, no _get raising; the apps in Unavailable always
\* answer without a success indicator, every other app answers with its
\* detail object.  Runs are not counted, so every record carries run 1.
Unavailable == {1}

ResumeLimits == {l \in Limits : ~l.isNone /\ l.n >= 1}

\* The body /appdetails answers with for appid in these runs.
ResumeResponse(appid) ==
    IF appid \in Unavailable
    THEN [kind |-> "nosuccess", echo |-> NA]
    ELSE [kind |-> "success", echo |-> NA]

InitResume ==
    /\ catalog \in {c \in InitialCatalogs : ~CatalogMissing(c) /\ ~CatalogLacksId(c)}
    /\ table \in {t \in InitialTables : ~ExistingLacksId(t)}
    /\ StoreIdle
    /\ GetIdle
    /\ keyCfg = NoKeys
    /\ WebIdle

\* The next call of ingest_from_app_list, with the limit of the calls before.
ResumeEnter(lim) ==
    /\ pc \in {"idle", "done", "failed"}
    /\ lim \in ResumeLimits
    /\ runs >= 1 => lim = limit
    /\ runs' = 1
    /\ limit' = lim
    /\ idx' = 1
    /\ results' = <<>>
    /\ requested' = <<>>
    /\ outcomes' = <<>>
    /\ okReq' = <<>>
    /\ writes' = NoWrites
    /\ tablePre' = table
    /\ rawPre' = raw
    /\ UNCHANGED <<catalog, table, raw, getVars, webVars, resumeVars>>

\* lines 108-112, in a later run.
ResumeExistingLacksId ==
    \E lim \in ResumeLimits :
        /\ ResumeEnter(lim)
        /\ ExistingLacksId(table)
        /\ Fatal("ValueError")

\* lines 116-123, in a later run.
ResumeNothingRemaining ==
    \E lim \in ResumeLimits :
        /\ ResumeEnter(lim)
        /\ Prerequisites
        /\ NothingRemaining(RemainingAppids(AppidsAll(catalog), IngestedAppids(table)))
        /\ pc' = "done"
        /\ err' = "none"
        /\ target' = <<>>

\* lines 116-136, in a later run.
ResumeSelect ==
    \E lim \in ResumeLimits :
        LET remaining == RemainingAppids(AppidsAll(catalog), IngestedAppids(table)) IN
        /\ ResumeEnter(lim)
        /\ Prerequisites
        /\ ~NothingRemaining(remaining)
        /\ target' = TargetAppids(remaining, lim)
        /\ pc' = IF target' = <<>> THEN "persist" ELSE "fetch"
        /\ err' = "none"

\* lines 137-144 with the answer the app always gives.
ResumeGetReturns ==
    /\ pc = "fetch"
    /\ LET resp == ResumeResponse(target[idx])
           rec == FetchSingleApp(target[idx], resp, <<runs, idx>>)
       IN
        /\ requested' = Append(requested, target[idx])
        /\ everRequested' = everRequested \cup {target[idx]}
        /\ results' = results \o rec
        /\ outcomes' = Append(outcomes, resp.kind)
        /\ okReq' = IF rec = <<>> THEN okReq ELSE Append(okReq, target[idx])
        /\ idx' = idx + 1
        /\ pc' = IF idx + 1 > Len(target) THEN "persist" ELSE "fetch"
        /\ UNCHANGED <<catalog, table, raw, err, limit, target, writes, tablePre,
                       rawPre, runs, getVars, webVars>>

NextResume ==
    \/ ResumeExistingLacksId
    \/ ResumeNothingRemaining
    \/ ResumeSelect
    \/ ResumeGetReturns
    \/ Persist

\* Every step of a run is taken, and a finished run is followed by the next.
SpecResume == InitResume /\ [][NextResume]_vars /\ WF_vars(NextResume)

\* ================================================================ claims
\* What the claims speak of, stated on the files and the history alone.
IdsOf(file) ==
    IF file.exists /\ file.hasId
    THEN {file.rows[i].appid : i \in DOMAIN file.rows} \ {NA}
    ELSE {}

Count(s, v) == Cardinality({i \in DOMAIN s : s[i] = v})

RunStarted == runs >= 1

PrerequisitesMet ==
    /\ catalog.exists
    /\ catalog.hasId
    /\ ~(tablePre.exists /\ ~tablePre.hasId)

\* How many cells of the catalog are ids the Detail Table did not hold.
NumRemaining ==
    Cardinality({i \in DOMAIN catalog.ids :
                    catalog.ids[i] # NA /\ catalog.ids[i] \notin IdsOf(tablePre)})

\* How many ids a run with this limit is to request.
Quota(lim) == IF lim.isNone THEN NumRemaining ELSE Max(0, Min(lim.n, NumRemaining))

\* req is, in ascending order, a choice of the smallest remaining catalog ids.
SmallestRemaining(req) ==
    /\ \A i, j \in DOMAIN req : i < j => req[i] <= req[j]
    /\ \A i \in DOMAIN req : req[i] \notin IdsOf(tablePre)
    /\ \A v \in Ids : Count(req, v) <= Count(catalog.ids, v)
    /\ \A v \in Ids :
          (v \notin IdsOf(tablePre) /\ Count(req, v) < Count(catalog.ids, v))
              => \A i \in DOMAIN req : req[i] <= v

ResumeSelectionFor(lims) ==
    (RunStarted /\ limit \in lims) =>
        /\ SmallestRemaining(requested)
        /\ Len(requested) <= Quota(limit)
        /\ pc \in {"persist", "done"} => Len(requested) = Quota(limit)

\* C1: for every Catalog Table, Detail Table and limit, a run requests
\* exactly the first `limit` ids (all when limit is unset) of the ascending
\* catalog ids not yet in the Detail Table, in ascending order, none that is
\* already present and none beyond the first `limit`.
ResumeSelection == ResumeSelectionFor(Limits)

\* The same for the limits that are counts (unset, or zero and above).
ResumeSelectionCountLimit ==
    ResumeSelectionFor({l \in Limits : l.isNone \/ l.n >= 0})

Persisted == pc = "done" /\ writes.table = 1

\* C2: after a run that reaches the persist step, the ids of the persisted
\* Detail Table are the ids it had before the run united with the ids of the
\* records fetched in the run, in every run of any sequence of runs.
MergeIdSet ==
    Persisted =>
        IdsOf(table) = IdsOf(tablePre) \cup {results[i].appid : i \in DOMAIN results}

\* A second run that added ids to the ids an earlier run had persisted.
MergeIdSetWitness ==
    /\ Persisted
    /\ runs = 2
    /\ IdsOf(tablePre) # {}
    /\ \E i \in DOMAIN results : results[i].appid \notin IdsOf(tablePre)

\* C3: after any sequence of runs, started with no Detail Table or one with
\* unique ids, the persisted Detail Table has at most one row per id.
IdUnique ==
    (table.exists /\ table.hasId) =>
        \A i, j \in DOMAIN table.rows :
            table.rows[i].appid = table.rows[j].appid => i = j

AllPresent ==
    /\ PrerequisitesMet
    /\ \A i \in DOMAIN catalog.ids :
          catalog.ids[i] # NA => catalog.ids[i] \in IdsOf(tablePre)

\* C4: when every catalog id is already in the Detail Table the run ends
\* successfully with no request issued and no file written; raw file and
\* Detail Table are as before.
EmptyRemainingShortCircuit ==
    (RunStarted /\ AllPresent) =>
        /\ pc = "done"
        /\ err = "none"
        /\ requested = <<>>
        /\ writes = NoWrites
        /\ table = tablePre
        /\ raw = rawPre

\* A second run that finds every id of a non-empty catalog persisted by the
\* first.
EmptyRemainingWitness ==
    /\ runs = 2
    /\ AllPresent
    /\ DropNa(catalog.ids) # <<>>
    /\ raw.exists
    /\ pc = "done"

RowsWithId(rows, x) == SelectSeq(rows, LAMBDA r : r.appid = x)

\* C5: when the merge combines an existing row with id X and a new row with
\* id X, the persisted table has exactly one row with id X, and it is the
\* new row.
MergeKeepsLast ==
    Persisted =>
        \A x \in Ids :
            (x \in IdsOf(tablePre) /\ RowsWithId(results, x) # <<>>) =>
                LET new == RowsWithId(results, x)
                IN RowsWithId(table.rows, x) = <<new[Len(new)]>>

\* A merge in which a new row met an old row of the same id.
MergeKeepsLastWitness ==
    /\ Persisted
    /\ \E x \in Ids :
          /\ RowsWithId(tablePre.rows, x) # <<>>
          /\ RowsWithId(results, x) # <<>>
          /\ RowsWithId(tablePre.rows, x)[1] # RowsWithId(results, x)[1]

\* C8: a missing Catalog Table file, a Catalog Table without the id column
\* or an existing Detail Table without the id column end the run with an
\* error, and by then nothing was requested and nothing written.
FatalBeforeNetwork ==
    (RunStarted /\ ~PrerequisitesMet) =>
        /\ pc = "failed"
        /\ err = (IF ~catalog.exists THEN "FileNotFoundError" ELSE "ValueError")
        /\ requested = <<>>
        /\ writes = NoWrites
        /\ table = tablePre
        /\ raw = rawPre

\* A run over a catalog with ids that found a Detail Table without the id
\* column.
FatalBeforeNetworkWitness ==
    /\ RunStarted
    /\ pc = "failed"
    /\ catalog.exists /\ catalog.hasId /\ DropNa(catalog.ids) # <<>>
    /\ tablePre.exists /\ ~tablePre.hasId

Skipped == {i \in DOMAIN outcomes : outcomes[i] # "success"}

\* C9: a response without a success indicator for the requested id adds no
\* record, raises no error, and the loop goes on to every later selected id;
\* the run still writes the raw file and the table.
PerRecordSkip ==
    /\ Len(results) = Count(outcomes, "success")
    /\ Len(outcomes) <= Len(target)
    /\ pc = "fetch" => idx = Len(outcomes) + 1 /\ idx <= Len(target)
    /\ (pc = "failed" /\ Skipped # {}) =>
          err \in FailureKinds /\ Len(requested) = Len(outcomes) + 1
    /\ (pc \in {"persist", "done"} /\ Skipped # {}) => requested = target
    /\ (pc = "done" /\ Skipped # {}) => writes = [raw |-> 1, table |-> 1]

\* A finished run whose first response lacked the success indicator and
\* whose second id was fetched.
PerRecordSkipWitness ==
    /\ pc = "done"
    /\ Len(outcomes) >= 2
    /\ outcomes[1] # "success"
    /\ outcomes[2] = "success"
    /\ writes = [raw |-> 1, table |-> 1]

\* C10: every record of the result set has as its id the id that was
\* requested, whatever id field the response's detail object carried.
ForcedId ==
    /\ Len(okReq) = Len(results)
    /\ \A i \in DOMAIN results : results[i].appid = okReq[i]


RECURSIVE Flatten(_)
Flatten(ps) == IF ps = <<>> THEN <<>> ELSE Head(ps) \o Flatten(Tail(ps))

\* C6: from cursor 0, against a server that returns n full pages and then a
\* page of k < page_size entries, the paginator issues exactly n + 1
\* requests, each after the first with the id of the last entry of the page
\* before as cursor, and accumulates the n * page_size + k entries; with
\* k = 0 the last request is the extra one that returns the empty page.
PaginatorTermination ==
    /\ Len(cursors) >= Len(pages)
    /\ \A i \in DOMAIN cursors :
          cursors[i] = (IF i = 1 THEN 0 ELSE pages[i - 1][Len(pages[i - 1])].appid)
    /\ webPc = "paging" =>
          /\ Len(cursors) = Len(pages)
          /\ \A i \in DOMAIN pages : Len(pages[i]) = page_size
    /\ webPc = "done" =>
          LET n == Len(pages) - 1 IN
          /\ n >= 0
          /\ Len(cursors) = n + 1
          /\ \A i \in 1..n : Len(pages[i]) = page_size
          /\ Len(pages[n + 1]) < page_size
          /\ Len(all_apps) = n * page_size + Len(pages[n + 1])
          /\ all_apps = Flatten(pages)
          /\ webRaw.apps = all_apps

\* Two full pages of two entries whose ids have gaps, then the extra request
\* that returns the empty page.
PaginatorTerminationWitness ==
    /\ webPc = "done"
    /\ page_size = 2
    /\ Len(pages) = 3
    /\ pages[3] = <<>>
    /\ Len(all_apps) = 4
    /\ cursors[3] > 4

\* C7: one call of _get makes at most 5 attempts; it returns the body of the
\* first attempt that succeeds and makes none after it; a failed attempt is
\* retried while fewer than 5 were made; after 5 failures the failure of the
\* fifth is raised to the caller.
BoundedRetry ==
    /\ attempt = Len(getLog)
    /\ attempt <= 5
    /\ \A i \in DOMAIN getLog : i < Len(getLog) => getLog[i].out \in FailureKinds
    /\ getPc = "trying" =>
          /\ attempt < 5
          /\ \A i \in DOMAIN getLog : getLog[i].out \in FailureKinds
    /\ getPc = "returned" =>
          /\ getLog[attempt].out = "ok"
          /\ getResult = [body |-> getLog[attempt].body, exc |-> "none"]
    /\ getPc = "raised" =>
          /\ attempt = 5
          /\ getLog[5].out \in FailureKinds
          /\ getResult = [body |-> NoBody, exc |-> getLog[5].out]

\* A call whose five attempts failed, the fifth not as the first did.
BoundedRetryWitness ==
    /\ getPc = "raised"
    /\ attempt = 5
    /\ getLog[1].out # getLog[5].out


\* C11: after every run that reaches the persist step the raw file is
\* {apps, meta} with apps exactly the records fetched successfully in that
\* run, in request order, none of an earlier run, and meta.count their
\* number.
RawHoldsLastFetch ==
    Persisted =>
        /\ raw.exists
        /\ raw.apps = results
        /\ raw.count = Len(raw.apps)
        /\ Len(raw.apps) = Count(outcomes, "success")
        /\ \A i \in DOMAIN raw.apps : raw.apps[i].val[1] = runs
        /\ \A i, j \in DOMAIN raw.apps : i < j => raw.apps[i].val[2] < raw.apps[j].val[2]

\* A second run that fetched records over a raw file holding the records of
\* the first.
RawHoldsLastFetchWitness ==
    /\ Persisted
    /\ runs = 2
    /\ rawPre.exists
    /\ rawPre.apps # <<>>
    /\ results # <<>>

\* C12: when the request for a selected id fails after its retries, the
\* error leaves ingest_from_app_list and neither the raw file nor the Detail
\* Table was modified by the run, also when earlier ids were fetched.
NoPartialOutput ==
    /\ (RunStarted /\ pc = "fetch") => (raw = rawPre /\ table = tablePre)
    /\ (pc = "failed" /\ requested # <<>>) =>
          /\ err \in FailureKinds
          /\ writes = NoWrites
          /\ raw = rawPre
          /\ table = tablePre

\* A second run that fetched a record and then failed on the next id, over
\* the files the first run wrote.
NoPartialOutputWitness ==
    /\ pc = "failed"
    /\ err \in FailureKinds
    /\ runs = 2
    /\ results # <<>>
    /\ rawPre.exists
    /\ tablePre.exists

\* C13: a run that completes successfully, also one in which every selected
\* id was skipped, leaves a Detail Table the next run can load the present
\* ids from: the next run does not raise the ValueError of a Detail Table
\* without the id column.  Stated for the runs that requested an id.
RunsStayResumable ==
    (Persisted /\ requested # <<>>) =>
        /\ table.exists
        /\ table.hasId
        /\ ~ExistingLacksId(table)


\* Every catalog id was requested in some run, or is in the Detail Table.
Covered ==
    \A i \in DOMAIN catalog.ids :
        catalog.ids[i] # NA => catalog.ids[i] \in everRequested \cup IdsOf(table)

\* A run has ended in which no request was issued.
QuietRun == RunStarted /\ pc \in {"done", "failed"} /\ requested = <<>>

\* C14: with a fixed Catalog Table, a fixed limit >= 1 and no fetch error,
\* repeated runs eventually have requested every catalog id and then reach a
\* run in which no request is issued, also when some ids always answer
\* without a success indicator.
ResumeMakesProgress == <>(Covered /\ <>QuietRun)

====
